---- MODULE Spec2Model ----
(***************************************************************************)
(* A model of SSLLabsAssessment (src/ssllabs/__init__.py): the API error   *)
(* classifier, the capacity gate, the analyze driver and the endpoint      *)
(* detail workers.                                                         *)
(*                                                                         *)
(* Conventions.                                                            *)
(*  - The HTTP transport (requests.get) is the environment: every request  *)
(*    draws its outcome from a small set, a response or a raised           *)
(*    exception (KeyboardInterrupt included).                              *)
(*  - An optional JSON number is a sequence: <<>> is Python's None (key    *)
(*    missing), <<n>> is the number n.  Ordering None against a number     *)
(*    raises TypeError.                                                    *)
(*  - A requests.Response object has json() and text but no get(); a       *)
(*    200 Response is truthy.  A dict has get(); False has neither.        *)
(*  - multiprocessing uses the fork start method: a worker runs the bound  *)
(*    method on its own copy of the instance.                              *)
(***************************************************************************)
EXTENDS Integers, Sequences, FiniteSets, TLC

----------------------------------------------------------------------------
(* Bounds of the model. *)

\* polls the driver may issue in each of its two polling loops
MaxPolls == 2
\* endpoints a status snapshot may list
MaxEndpoints == 2

----------------------------------------------------------------------------
(* Values. *)

None == "None"
HostName == "example.com"
CustomUrl == "https://custom.example/api/"

API_URLS ==
    << "https://api.dev.ssllabs.com/api/v3/", "https://api.ssllabs.com/api/v3/" >>

NoneV == << >>
Some(n) == << n >>

\* Status codes the service may answer with; 404 stands for "any other".
StatusCodes == {200, 400, 429, 500, 503, 529, 404}

\* One entry of the "errors" list of an error body.
ErrorEntries ==
    { [field |-> f, message |-> m] : f \in {"", "host"}, m \in {"", "bad value"} }

\* The error lists the requests are answered with: none, one entry, and two
\* entries of which the second has neither field nor message.
FewErrorLists ==
    { << >>,
      << [field |-> "host", message |-> "bad value"] >>,
      << [field |-> "host", message |-> "bad value"], [field |-> "", message |-> ""] >> }

HostStatuses == {"DNS", "IN_PROGRESS", "READY", "ERROR", "UNKNOWN"}

ProgressValues == {NoneV, Some(-1), Some(0), Some(40), Some(75), Some(100)}

\* A response of the transport: status code, body (JSON object or not, its
\* raw text, its "errors"), and the fields the client reads from a JSON body.
Response(code, isJson, errs) ==
    [ status_code |-> code, json |-> isJson,
      text |-> IF isJson THEN "{json}" ELSE "<html>",
      errors |-> errs,
      status |-> "", endpoints |-> NoneV,
      progress |-> NoneV,
      maxAssessments |-> NoneV, clientMaxAssessments |-> NoneV,
      currentAssessments |-> NoneV, messages |-> NoneV ]

\* Error answers with the given codes: each with a non-JSON body and with a
\* JSON body carrying each of the given error lists.
ErrorResponses(codes, lists) ==
    { Response(c, FALSE, << >>) : c \in codes }
      \cup { Response(c, TRUE, l) : c \in codes, l \in lists }

\* The info request is answered with every kind of error; the requests of the
\* driver's loops and of the workers with the errors of a busy service.
AllErrors == ErrorResponses(StatusCodes \ {200}, FewErrorLists)

BusyErrors ==
    ErrorResponses({429, 503}, { << [field |-> "host", message |-> "bad value"] >> })

\* A 200 answer whose body is not JSON.
Garbled == Response(200, FALSE, << >>)

\* info documents
InfoResponses ==
    { [ Response(200, TRUE, << >>) EXCEPT
          !.maxAssessments = m, !.clientMaxAssessments = Some(25),
          !.currentAssessments = Some(0), !.messages = g ]
        : m \in {NoneV, Some(-1), Some(0), Some(1)},
          g \in {NoneV, Some(0), Some(1)} }
      \cup {Garbled} \cup AllErrors

\* analyze documents (status snapshots)
AnalyzeResponses ==
    { [ Response(200, TRUE, << >>) EXCEPT !.status = s, !.endpoints = e ]
        : s \in HostStatuses,
          e \in {NoneV} \cup { Some(k) : k \in 0..MaxEndpoints } }
      \cup {Garbled} \cup BusyErrors

\* getEndpointData documents
EndpointResponses ==
    { [ Response(200, TRUE, << >>) EXCEPT !.progress = p ] : p \in ProgressValues }
      \cup {Garbled} \cup BusyErrors

\* What requests.get does: return a response or raise.
TransportExceptions == {"ConnectionError", "Timeout", "KeyboardInterrupt"}

Returned(r) == [exc |-> "none", resp |-> r]
Raised(e) == [exc |-> e, resp |-> Response(0, FALSE, << >>)]

GetOutcomes(responses) ==
    { Returned(r) : r \in responses } \cup { Raised(e) : e \in TransportExceptions }

----------------------------------------------------------------------------
(* The error classifier. *)

\* '{}{}{}'.format(field or '', ': ' if field else '', message or 'Unknown error')
FormatError(error) ==
    error.field \o (IF error.field # "" THEN ": " ELSE "")
                \o (IF error.message # "" THEN error.message ELSE "Unknown error")

\* '; '.join(...)
RECURSIVE Join(_)
Join(errs) ==
    IF errs = << >> THEN ""
    ELSE IF Len(errs) = 1 THEN FormatError(errs[1])
    ELSE FormatError(errs[1]) \o "; " \o Join(Tail(errs))

\* raise AccessProblem(msg)
_die_on_error(msg) ==
    [exc |-> "AccessProblem", msg |-> msg]

Passed == [exc |-> "none", msg |-> ""]

\* response.json() of a body that is not JSON raises ValueError
JsonError == [exc |-> "ValueError", msg |-> ""]

\* Lines 113-125: the text that names the kind of error of a status code.
ErrorPrefix(_status) ==
    CASE _status = 400 -> "[API] invocation error: "
      [] _status = 429 -> "[API] client request rate too high or too many new"
                            \o "assessments too fast: "
      [] _status = 500 -> "[API] internal error: "
      [] _status = 503 -> "[API] the service is not available: "
      [] _status = 529 -> "[API] the service is overloaded: "
      [] OTHER -> "[API] unknown status code: " \o ToString(_status) \o ", "

\* The outcome of _handle_api_error(response): the response is passed through
\* (exc = "none") or an exception is raised.  response.json() is evaluated
\* before the fallback to response.text.
_handle_api_error(response) ==
    LET _status == response.status_code
    IN  IF _status = 200 THEN Passed
        ELSE IF ~response.json THEN JsonError
        ELSE
          LET joined == Join(response.errors)
              error_message == IF joined # "" THEN joined ELSE response.text
          IN  _die_on_error(ErrorPrefix(_status) \o error_message)

\* The record of one call of _handle_api_error: what it read of the response
\* and what it did.
Classify(response) ==
    [status_code |-> response.status_code, json |-> response.json,
     text |-> response.text, errors |-> response.errors,
     exc |-> _handle_api_error(response).exc,
     msg |-> _handle_api_error(response).msg]

\* self._handle_api_error(requests.get(url)) seen from the caller: the
\* exception that reaches the caller ("none" when a 200 response comes back).
Fetch(out) ==
    IF out.exc # "none" THEN out.exc ELSE _handle_api_error(out.resp).exc

\* self._handle_api_error(requests.get(url)).json()
FetchJson(out) ==
    IF Fetch(out) # "none" THEN Fetch(out)
    ELSE IF ~out.resp.json THEN "ValueError"
    ELSE "none"

----------------------------------------------------------------------------
(* The state. *)

VARIABLES
    host,                    \* self.host: "unset" (no attribute), "" or a name
    API_URL,                 \* self.API_URL: None or a base URL
    MAX_ASSESSMENTS,         \* self.MAX_ASSESSMENTS
    CLIENT_MAX_ASSESSMENTS,  \* self.CLIENT_MAX_ASSESSMENTS
    CURRENT_ASSESSMENTS,     \* self.CURRENT_ASSESSMENTS
    params,                  \* self.return_all, self.from_cache (None until set)
    endpoint_jobs,           \* self.endpoint_jobs: the workers started, in order
    args,                    \* the arguments of the analyze call
    pc,                      \* the driver's position in analyze
    _status,                 \* analyze's local _status
    result,                  \* how analyze ended: a returned value or an exception
    workers,                 \* the endpoint workers (one process each)
    sent,                    \* the requests the driver has issued
    hist,                    \* what happened to the call so far
    bound,                   \* the names of the class attributes bound on self
    klass,                   \* the attributes of the class SSLLabsAssessment
    peer                     \* a second instance in the same process

vars ==
    << host, API_URL, MAX_ASSESSMENTS, CLIENT_MAX_ASSESSMENTS, CURRENT_ASSESSMENTS,
       params, endpoint_jobs, args, pc, _status, result, workers, sent, hist,
       bound, klass, peer >>

instance_vars ==
    << host, API_URL, MAX_ASSESSMENTS, CLIENT_MAX_ASSESSMENTS, CURRENT_ASSESSMENTS,
       params, endpoint_jobs, bound, klass, peer >>

Workers == 1..MaxEndpoints

\* Values of the local _status: unbound, False, a Response object or a dict.
\* Between its last read and the assignment that rebinds it the local counts
\* as unbound: its value cannot be observed.
\* serial tells the documents of one call apart: document n is the answer to
\* the n-th request the call sent to the analyze endpoint.
Unbound == [kind |-> "unbound", status |-> "", endpoints |-> NoneV, serial |-> 0]
False == [kind |-> "False", status |-> "", endpoints |-> NoneV, serial |-> 0]
ResponseObject(r, n) ==
    [kind |-> "Response", status |-> r.status, endpoints |-> r.endpoints, serial |-> n]
Dict(r, n) ==
    [kind |-> "dict", status |-> r.status, endpoints |-> r.endpoints, serial |-> n]

\* bool(x): False is falsy; a 200 Response and a status document are truthy.
Truthy(x) == x.kind \in {"Response", "dict"}

\* A Response that answers get() like the document it carries.
HasGet_response(x) == x.kind \in {"dict", "Response"}

\* x.get exists on a dict only.
HasGet(x) == x.kind = "dict"

\* How analyze ends.
Running == [kind |-> "none", value |-> "", serial |-> 0]
Return(v) == [kind |-> "return", value |-> v, serial |-> 0]
ReturnDoc(d) == [kind |-> "return", value |-> "dict", serial |-> d.serial]
Raise(e) == [kind |-> "raise", value |-> e, serial |-> 0]

\* A no-result return value of analyze: False or None.
NoResult(r) == r.kind = "return" /\ r.value \in {"False", "None"}

NoWorker == [pc |-> "unstarted", got |-> "", progress |-> NoneV, sleep |-> 0,
             handler |-> FALSE]

\* startNew: requests that carried startNew; both: requests that carried
\* startNew and fromCache; cached: requests that carried fromCache and maxAge.
NoneSent == [info |-> << >>, trigger |-> 0, startNew |-> 0, both |-> 0, cached |-> 0,
             poll1 |-> 0, poll2 |-> 0, fetch_all |-> 0]

\* What _handle_api_error last did: the response it was given and the
\* exception it raised ("none": the response was passed through).
NotClassified ==
    [status_code |-> 0, json |-> FALSE, text |-> "", errors |-> << >>,
     exc |-> "", msg |-> ""]

NoHist == [gate |-> "", hostless |-> FALSE, firstPoll |-> "", lastPoll |-> "", failed |-> "",
           interrupted |-> "", overlap |-> FALSE, sleep |-> 0, fanout |-> NoneV,
           classified |-> NotClassified, terminal |-> "", exit |-> "",
           probes |-> << >>]

\* The number of requests sent to the analyze endpoint.
AnalyzeRequests(s) == s.trigger + s.poll1 + s.poll2 + s.fetch_all

\* The defaults of analyze's arguments (lines 261-263).
DefaultArgs ==
    [resume |-> FALSE, detail |-> FALSE, return_all |-> "done", from_cache |-> "off"]

\* The class attributes the capacity check assigns through self.
CounterNames == {"MAX_ASSESSMENTS", "CLIENT_MAX_ASSESSMENTS", "CURRENT_ASSESSMENTS"}
AttributeNames == {"API_URL"} \cup CounterNames

\* Lines 70-73: the attributes as the class body defines them.
ClassDefaults ==
    [API_URL |-> None, MAX_ASSESSMENTS |-> Some(25),
     CLIENT_MAX_ASSESSMENTS |-> Some(25), CURRENT_ASSESSMENTS |-> Some(0)]

\* self.X for an instance that has bound the names of names to the values of
\* own: the instance's attribute where it is bound, the class's where not.
Lookup(own, names, cls) ==
    [n \in AttributeNames |-> IF n \in names THEN own[n] ELSE cls[n]]

\* Lines 75-79: SSLLabsAssessment(api_url=u) binds API_URL when u is truthy.
\* attrs is what self.X evaluates to, bound the names bound on the instance.
Constructed(u) ==
    [attrs |-> Lookup([ClassDefaults EXCEPT !.API_URL = u],
                      IF u # None THEN {"API_URL"} ELSE {}, ClassDefaults),
     bound |-> IF u # None THEN {"API_URL"} ELSE {}]

\* The state after construction of SSLLabsAssessment(host=..., api_url=...)
\* and of a second instance, one of peers.
InitWith(peers) ==
    /\ host \in {"unset", HostName}
    /\ API_URL \in {None, CustomUrl}
    /\ MAX_ASSESSMENTS = Some(25)
    /\ CLIENT_MAX_ASSESSMENTS = Some(25)
    /\ CURRENT_ASSESSMENTS = Some(0)
    /\ params = [return_all |-> None, from_cache |-> None]
    /\ endpoint_jobs = << >>
    /\ args = DefaultArgs
    /\ pc = "idle"
    /\ _status = Unbound
    /\ result = Running
    /\ workers = [w \in Workers |-> NoWorker]
    /\ sent = NoneSent
    /\ hist = NoHist
    /\ bound = IF API_URL # None THEN {"API_URL"} ELSE {}
    /\ klass = ClassDefaults
    /\ peer \in peers

\* SSLLabsAssessment(host=..., api_url=...): the state after construction; the
\* second instance is constructed without arguments.
Init == InitWith({Constructed(None)})

\* set_host(h)
set_host(h) ==
    /\ pc = "idle"
    /\ host' = h
    /\ UNCHANGED << API_URL, MAX_ASSESSMENTS, CLIENT_MAX_ASSESSMENTS, CURRENT_ASSESSMENTS,
                    params, endpoint_jobs, args, pc, _status, result, workers, sent, hist,
                    bound, klass, peer >>

----------------------------------------------------------------------------
(* The capacity gate. *)

GateResult(ret, exc, url, counters, probed) ==
    [ret |-> ret, exc |-> exc, API_URL |-> url, counters |-> counters, probed |-> probed]

\* A gate that lets a limit of exactly 0 through.
RateLimited_strict(maxAssessments) == maxAssessments < 0

\* Line 149: if self.MAX_ASSESSMENTS<=0
RateLimited(maxAssessments) == maxAssessments <= 0

\* Lines 146-158: the counters are stored, then the gate decides.
GateDecide(url, response, counters, probed) ==
    LET stored == << response.clientMaxAssessments, response.currentAssessments,
                     response.maxAssessments >>
    IN  IF response.maxAssessments = NoneV
          THEN GateResult("False", "TypeError", url, stored, probed)
        ELSE IF RateLimited(response.maxAssessments[1])
          THEN GateResult("False", "none", url, stored, probed)
        ELSE IF response.messages = NoneV
          THEN GateResult("False", "TypeError", url, stored, probed)
        ELSE IF response.messages[1] = 0
          THEN GateResult("False", "IndexError", url, stored, probed)
        ELSE GateResult("True", "none", url, stored, probed)

\* The handlers of lines 159-163: AccessProblem is raised again, every other
\* Exception makes the gate answer False; a KeyboardInterrupt is no Exception
\* and passes through.
GateFail(exc, url, counters, probed) ==
    IF exc \in {"AccessProblem", "KeyboardInterrupt"}
      THEN GateResult("raise", exc, url, counters, probed)
      ELSE GateResult("False", exc, url, counters, probed)

\* How an info request went, as the gate sees it: a usable document ("ok"), a
\* non-200 answer, a 200 answer that is no JSON, or the exception raised by
\* the transport.
ProbeKind(out) ==
    IF out.exc # "none" THEN out.exc
    ELSE IF out.resp.status_code # 200 THEN "non-200"
    ELSE IF ~out.resp.json THEN "garbled"
    ELSE "ok"

\* A probe loop that also goes on to the next candidate after a fatal answer.
RECURSIVE ProbeCandidates_lenient(_, _, _, _)
ProbeCandidates_lenient(i, outs, counters, probed) ==
    IF i > Len(API_URLS)
      THEN GateFail("AccessProblem", None, counters, probed)
    ELSE
      LET url == API_URLS[i]
          e == FetchJson(outs[i])
          asked == Append(probed, url)
      IN  IF e = "none" THEN GateDecide(url, outs[i].resp, counters, asked)
          ELSE IF e \in {"ConnectionError", "AccessProblem"}
            THEN ProbeCandidates_lenient(i + 1, outs, counters, asked)
          ELSE GateFail(e, None, counters, asked)

\* Lines 130-136 from candidate i on, then line 143.
RECURSIVE ProbeCandidates(_, _, _, _)
ProbeCandidates(i, outs, counters, probed) ==
    IF i > Len(API_URLS)
      THEN GateFail("AccessProblem", None, counters, probed)
    ELSE
      LET url == API_URLS[i]
          e == FetchJson(outs[i])
          asked == Append(probed, url)
      IN  IF e = "none" THEN GateDecide(url, outs[i].resp, counters, asked)
          ELSE IF e = "ConnectionError" THEN ProbeCandidates(i + 1, outs, counters, asked)
          ELSE GateFail(e, None, counters, asked)

\* A gate that falls back to the built-in candidates when the configured URL
\* cannot be reached.
_check_api_info_fallback(url, counters, outs) ==
    IF url = None
      THEN ProbeCandidates(1, outs, counters, << >>)
    ELSE
      LET e == FetchJson(outs[1])
      IN  IF e = "none" THEN GateDecide(url, outs[1].resp, counters, << url >>)
          ELSE IF e = "ConnectionError"
            THEN ProbeCandidates(2, outs, counters, << url >>)
          ELSE GateFail(e, url, counters, << url >>)

\* _check_api_info(): outs[i] is the outcome of the i-th info request.
_check_api_info(url, counters, outs) ==
    IF url = None
      THEN ProbeCandidates(1, outs, counters, << >>)
    ELSE
      LET e == FetchJson(outs[1])
      IN  IF e = "none" THEN GateDecide(url, outs[1].resp, counters, << url >>)
          ELSE IF e = "ConnectionError" THEN GateFail("AccessProblem", url, counters, << url >>)
          ELSE GateFail(e, url, counters, << url >>)

----------------------------------------------------------------------------
(* analyze. *)

\* The arguments of analyze the model varies; the host argument is apart.
AnalyzeArgs ==
    [ resume : BOOLEAN, detail : BOOLEAN,
      return_all : {"on", "done", "off"}, from_cache : {"on", "off"} ]

\* analyze ends with r: its locals are gone.
End(r) ==
    /\ pc' = "done"
    /\ result' = r
    /\ _status' = Unbound

\* analyze goes on at p with the local _status bound to st.
Goto(p, st) ==
    /\ pc' = p
    /\ result' = result
    /\ _status' = st

\* The classifier's record after a request with transport outcome out.
Seen(out) ==
    IF out.exc = "none" THEN Classify(out.resp) ELSE hist.classified

\* The names one run of the capacity check assigns through self: API_URL at
\* line 133 when a candidate has answered with a document, the counters at
\* lines 146-148 when the request has produced a document.
GateBinds(url, g, outs) ==
    LET got == g.probed # << >> /\ FetchJson(outs[Len(g.probed)]) = "none"
    IN  (IF got /\ url = None THEN {"API_URL"} ELSE {})
          \cup (IF got THEN CounterNames ELSE {})

\* The attributes of the instance after the run g of the capacity check.
GateAttrs(g) ==
    [API_URL |-> g.API_URL, CLIENT_MAX_ASSESSMENTS |-> g.counters[1],
     CURRENT_ASSESSMENTS |-> g.counters[2], MAX_ASSESSMENTS |-> g.counters[3]]

\* An assignment that rebinds the attribute of the class.
ClassAfter_shared(cls, names, vals) ==
    [n \in AttributeNames |-> IF n \in names THEN vals[n] ELSE cls[n]]

\* The class after self.X = vals[X] for the names of names (lines 133,
\* 146-148): an assignment through self binds the attribute on the instance
\* and leaves the attribute of the class as it is.
ClassAfter(cls, names, vals) ==
    cls

\* What an instance p that did not act reads after the class has become cls.
Refresh(p, cls) ==
    [p EXCEPT !.attrs = Lookup(p.attrs, p.bound, cls)]

\* analyze(...) is called; lines 277-278: the capacity gate.
analyze(outs) ==
    /\ pc = "idle"
    /\ LET g == _check_api_info(API_URL,
                  << CLIENT_MAX_ASSESSMENTS, CURRENT_ASSESSMENTS, MAX_ASSESSMENTS >>, outs)
           names == GateBinds(API_URL, g, outs)
       IN  /\ bound' = bound \cup names
           /\ klass' = ClassAfter(klass, names, GateAttrs(g))
           /\ peer' = Refresh(peer, klass')
           /\ API_URL' = g.API_URL
           /\ CLIENT_MAX_ASSESSMENTS' = g.counters[1]
           /\ CURRENT_ASSESSMENTS' = g.counters[2]
           /\ MAX_ASSESSMENTS' = g.counters[3]
           /\ sent' = [sent EXCEPT !.info = g.probed]
           /\ hist' = [hist EXCEPT
                         !.gate = IF g.ret = "True" THEN "ready"
                                  ELSE IF g.ret = "False" THEN "not ready" ELSE g.exc,
                         !.interrupted = IF g.exc = "KeyboardInterrupt" THEN "info" ELSE @,
                         !.classified = Seen(outs[Len(g.probed)]),
                         !.probes = [i \in 1..Len(g.probed) |-> ProbeKind(outs[i])]]
           /\ IF g.ret = "raise" THEN End(Raise(g.exc))
              ELSE IF g.ret = "False" THEN End(Return("False"))
              ELSE Goto("host", _status)
    /\ UNCHANGED << host, params, endpoint_jobs, args, workers >>

\* The second instance runs its capacity check (lines 127-163).
peer_check_api_info(outs) ==
    LET url == peer.attrs.API_URL
        g == _check_api_info(url,
               << peer.attrs.CLIENT_MAX_ASSESSMENTS, peer.attrs.CURRENT_ASSESSMENTS,
                  peer.attrs.MAX_ASSESSMENTS >>, outs)
        names == GateBinds(url, g, outs)
        mine == [API_URL |-> API_URL, MAX_ASSESSMENTS |-> MAX_ASSESSMENTS,
                 CLIENT_MAX_ASSESSMENTS |-> CLIENT_MAX_ASSESSMENTS,
                 CURRENT_ASSESSMENTS |-> CURRENT_ASSESSMENTS]
    IN  /\ peer' = [attrs |-> GateAttrs(g), bound |-> peer.bound \cup names]
        /\ klass' = ClassAfter(klass, names, GateAttrs(g))
        /\ API_URL' = Lookup(mine, bound, klass').API_URL
        /\ MAX_ASSESSMENTS' = Lookup(mine, bound, klass').MAX_ASSESSMENTS
        /\ CLIENT_MAX_ASSESSMENTS' = Lookup(mine, bound, klass').CLIENT_MAX_ASSESSMENTS
        /\ CURRENT_ASSESSMENTS' = Lookup(mine, bound, klass').CURRENT_ASSESSMENTS
        /\ UNCHANGED << host, params, endpoint_jobs, args, pc, _status, result, workers,
                        sent, hist, bound >>

\* Lines 280-303 of analyze(host=h, resume=a.resume, ...): the host is settled
\* and the arguments are stored.
analyze_host(h, a) ==
    /\ pc = "host"
    /\ hist' = [hist EXCEPT !.hostless = (h = None /\ host \in {"unset", ""})]
    /\ IF h = None /\ host = "unset"
         THEN End(Raise("AttributeError")) /\ UNCHANGED << host, params, args >>
       ELSE IF h = None /\ host = ""
         THEN End(Return("False")) /\ UNCHANGED << host, params, args >>
       ELSE /\ host' = IF h # None THEN h ELSE host
            /\ args' = a
            /\ params' = [return_all |-> a.return_all, from_cache |-> a.from_cache]
            /\ Goto(IF a.resume THEN "poll1" ELSE "trigger", _status)
    /\ UNCHANGED << API_URL, MAX_ASSESSMENTS, CLIENT_MAX_ASSESSMENTS, CURRENT_ASSESSMENTS,
                    endpoint_jobs, workers, sent, bound, klass, peer >>

\* The query parameters every request to the analyze endpoint carries.
BaseParams == {"host", "publish", "ignoreMismatch", "all"}

\* Lines 166-179: the query parameters of the trigger request.
TriggerParams(from_cache) ==
    BaseParams \cup (IF from_cache = "on" THEN {"fromCache", "maxAge"} ELSE {"startNew"})

\* A poll that asks for a new assessment like the trigger does.
PollParams_startNew(from_cache) ==
    BaseParams \cup (IF from_cache = "on" THEN {"fromCache", "maxAge"} ELSE {"startNew"})

\* Lines 189-200 and 211-222: the query parameters of a poll and of the
\* fetch-all request.
PollParams(from_cache) ==
    BaseParams \cup (IF from_cache = "on" THEN {"fromCache", "maxAge"} ELSE {})

\* The request counters after a request with query parameters url.
Tally(s, url) ==
    [s EXCEPT !.startNew = @ + (IF "startNew" \in url THEN 1 ELSE 0),
              !.both = @ + (IF {"startNew", "fromCache"} \subseteq url THEN 1 ELSE 0),
              !.cached = @ + (IF {"fromCache", "maxAge"} \subseteq url THEN 1 ELSE 0)]

\* The value _trigger_new_assessment returns, or the exception it raises:
\* the Response object itself comes back (no .json()).
_trigger_new_assessment(out, n) ==
    LET e == Fetch(out)
    IN  IF e \in {"AccessProblem", "KeyboardInterrupt"} THEN [exc |-> e, value |-> False]
        ELSE IF e # "none" THEN [exc |-> "none", value |-> False]
        ELSE [exc |-> "none", value |-> ResponseObject(out.resp, n)]

\* A _poll_api whose handler also catches the fatal error.
_poll_api_swallowing(out, n) ==
    LET e == FetchJson(out)
    IN  IF e = "KeyboardInterrupt" THEN [exc |-> e, value |-> False]
        ELSE IF e # "none" THEN [exc |-> "none", value |-> False]
        ELSE [exc |-> "none", value |-> Dict(out.resp, n)]

\* The value _poll_api returns, or the exception it raises.
_poll_api(out, n) ==
    LET e == FetchJson(out)
    IN  IF e \in {"AccessProblem", "KeyboardInterrupt"} THEN [exc |-> e, value |-> False]
        ELSE IF e # "none" THEN [exc |-> "none", value |-> False]
        ELSE [exc |-> "none", value |-> Dict(out.resp, n)]

\* The value _get_all_results returns, or the exception it raises.
_get_all_results(out, n) ==
    LET e == FetchJson(out)
    IN  IF e \in {"AccessProblem", "KeyboardInterrupt"} THEN [exc |-> e, value |-> False]
        ELSE IF e # "none" THEN [exc |-> "none", value |-> False]
        ELSE [exc |-> "none", value |-> Dict(out.resp, n)]

\* What a poll did, for the record of the call.
PollOutcome(r) ==
    IF r.exc # "none" THEN r.exc
    ELSE IF ~Truthy(r.value) THEN "failed"
    ELSE r.value.status

\* self.return_all in ('on', 'done')
ReturnsSnapshot == params.return_all \in {"on", "done"}

\* The terminal status (READY or ERROR) the analyze endpoint has reported to
\* this call, if any: v is the value of the latest trigger or poll.
TerminalSeen(v) ==
    IF hist.terminal # "" THEN hist.terminal
    ELSE IF Truthy(v) /\ v.status \in {"READY", "ERROR"} THEN v.status
    ELSE ""

\* Lines 294-301: what analyze does with the value of the trigger.
TriggerBranch(v) ==
    IF ~Truthy(v) THEN "return False"
    ELSE IF ~HasGet(v) THEN "AttributeError"
    ELSE IF v.status = "READY" THEN (IF ReturnsSnapshot THEN "return status" ELSE "poll")
    ELSE IF v.status = "ERROR" THEN "return None"
    ELSE "poll"

\* Lines 291-301: the trigger request and what analyze does with its answer.
analyze_trigger(out) ==
    /\ pc = "trigger"
    /\ LET r == _trigger_new_assessment(out, AnalyzeRequests(sent) + 1)
           b == TriggerBranch(r.value)
       IN  /\ sent' = [Tally(sent, TriggerParams(params.from_cache)) EXCEPT !.trigger = @ + 1]
           /\ hist' = [hist EXCEPT
                         !.failed = IF r.exc = "none" /\ ~Truthy(r.value) THEN "trigger" ELSE @,
                         !.interrupted = IF r.exc = "KeyboardInterrupt" THEN "trigger" ELSE @,
                         !.classified = Seen(out),
                         !.terminal = TerminalSeen(r.value)]
           /\ IF r.exc # "none" THEN End(Raise(r.exc))
              ELSE IF b = "return False" THEN End(Return("False"))
              ELSE IF b = "AttributeError" THEN End(Raise("AttributeError"))
              ELSE IF b = "return status" THEN End(ReturnDoc(r.value))
              ELSE IF b = "return None" THEN End(Return("None"))
              ELSE Goto("poll1", Unbound)
    /\ UNCHANGED << instance_vars, args, workers >>

\* A join that returns only for a worker that ended without the fatal error.
Terminated_clean(w) ==
    workers[w].pc \in {"returned", "interrupted", "KeyboardInterrupt"}

\* A worker process that has ended (returned or died) and one that runs.
Terminated(w) ==
    workers[w].pc \in {"returned", "interrupted", "AccessProblem", "KeyboardInterrupt"}

Alive(w) == workers[w].pc \in {"request", "sleep"}

\* A first loop in which IN_PROGRESS ends a resume call.
Loop1Branch_returning(v, resume) ==
    IF ~Truthy(v) THEN "break"
    ELSE IF v.status = "IN_PROGRESS" THEN (IF resume THEN "return None" ELSE "break")
    ELSE IF v.status = "READY" THEN (IF resume THEN "return None" ELSE "report")
    ELSE IF v.status = "ERROR" THEN "return None"
    ELSE "continue"

\* A first loop that reports a READY snapshot to a resume call too.
Loop1Branch_reporting(v, resume) ==
    IF ~Truthy(v) THEN "break"
    ELSE IF v.status = "IN_PROGRESS" THEN "break"
    ELSE IF v.status = "READY" THEN "report"
    ELSE IF v.status = "ERROR" THEN "return None"
    ELSE "continue"

\* Lines 306-324: what the first polling loop does with the value of a poll.
Loop1Branch(v, resume) ==
    IF ~Truthy(v) THEN "break"
    ELSE IF v.status = "IN_PROGRESS" THEN "break"
    ELSE IF v.status = "READY" THEN (IF resume THEN "return None" ELSE "report")
    ELSE IF v.status = "ERROR" THEN "return None"
    ELSE "continue"

\* Lines 304-324: one iteration of the first polling loop (outside the try).
analyze_poll1(out) ==
    /\ pc = "poll1"
    /\ sent.poll1 < MaxPolls
    /\ LET r == _poll_api(out, AnalyzeRequests(sent) + 1)
           b == Loop1Branch(r.value, args.resume)
       IN  /\ sent' = [Tally(sent, PollParams(params.from_cache)) EXCEPT !.poll1 = @ + 1]
           /\ hist' = [hist EXCEPT
                         !.firstPoll = IF sent.poll1 = 0 THEN PollOutcome(r) ELSE @,
                         !.lastPoll = PollOutcome(r),
                         !.failed = IF r.exc = "none" /\ ~Truthy(r.value) THEN "poll1" ELSE @,
                         !.interrupted = IF r.exc = "KeyboardInterrupt" THEN "poll1" ELSE @,
                         !.overlap = @ \/ \E w \in Workers : Alive(w),
                         !.classified = Seen(out),
                         !.terminal = TerminalSeen(r.value)]
           /\ IF r.exc # "none" THEN End(Raise(r.exc))
              ELSE IF b = "break" THEN Goto("testing", r.value)
              ELSE IF b = "return None" THEN End(Return("None"))
              ELSE IF b = "report"
                THEN IF ReturnsSnapshot THEN End(ReturnDoc(r.value))
                     ELSE Goto("fetch_all1", Unbound)
              ELSE Goto("poll1", Unbound)
    /\ UNCHANGED << instance_vars, args, workers >>

\* Line 326: len(_status.get('endpoints')), outside the try block; line 328.
analyze_testing ==
    /\ pc = "testing"
    /\ IF ~HasGet(_status) THEN End(Raise("AttributeError")) /\ hist' = hist
       ELSE IF _status.endpoints = NoneV THEN End(Raise("TypeError")) /\ hist' = hist
       ELSE IF args.detail
         THEN /\ Goto("start", _status)
              /\ hist' = [hist EXCEPT !.fanout = _status.endpoints]
       ELSE Goto("poll2", Unbound) /\ hist' = hist
    /\ UNCHANGED << instance_vars, args, workers, sent >>

\* Lines 329-334: one iteration of the loop that starts the workers.
analyze_start ==
    /\ pc = "start"
    /\ IF Len(endpoint_jobs) < _status.endpoints[1]
         THEN LET w == Len(endpoint_jobs) + 1
              IN  /\ endpoint_jobs' = Append(endpoint_jobs, w)
                  /\ workers' = [workers EXCEPT ![w].pc = "request"]
                  /\ Goto("start", _status)
         ELSE /\ Goto("join", Unbound)
              /\ UNCHANGED << endpoint_jobs, workers >>
    /\ UNCHANGED << host, API_URL, MAX_ASSESSMENTS, CLIENT_MAX_ASSESSMENTS,
                    CURRENT_ASSESSMENTS, params, args, sent, hist, bound, klass, peer >>

\* A driver that does not wait for its workers.
AllJoined_nowait ==
    TRUE

\* Lines 335-336: every job.join() has returned.
AllJoined ==
    \A i \in 1..Len(endpoint_jobs) : Terminated(endpoint_jobs[i])

\* Lines 335-336: job.join() for every job.
analyze_join ==
    /\ pc = "join"
    /\ AllJoined
    /\ pc' = "poll2"
    /\ UNCHANGED << instance_vars, args, _status, result, workers, sent, hist >>

\* A second loop that gives up on a status it does not know.
Loop2Branch_strict(v) ==
    IF ~Truthy(v) THEN "break"
    ELSE IF v.status = "IN_PROGRESS" THEN "sleep 10"
    ELSE IF v.status = "READY" THEN "report"
    ELSE IF v.status = "ERROR" THEN "return None"
    ELSE IF v.status = "DNS" THEN "sleep 4"
    ELSE "break"

\* Lines 339-356: what the second polling loop does with the value of a poll.
Loop2Branch(v) ==
    IF ~Truthy(v) THEN "break"
    ELSE IF v.status = "IN_PROGRESS" THEN "sleep 10"
    ELSE IF v.status = "READY" THEN "report"
    ELSE IF v.status = "ERROR" THEN "return None"
    ELSE IF v.status = "DNS" THEN "sleep 4"
    ELSE "continue"

\* Lines 337-356: one iteration of the second polling loop (inside the try).
analyze_poll2(out) ==
    /\ pc = "poll2"
    /\ sent.poll2 < MaxPolls
    /\ LET r == _poll_api(out, AnalyzeRequests(sent) + 1)
           b == Loop2Branch(r.value)
       IN  /\ sent' = [Tally(sent, PollParams(params.from_cache)) EXCEPT !.poll2 = @ + 1]
           /\ hist' = [hist EXCEPT
                         !.firstPoll = IF sent.poll1 + sent.poll2 = 0 THEN PollOutcome(r) ELSE @,
                         !.lastPoll = PollOutcome(r),
                         !.failed = IF r.exc = "none" /\ ~Truthy(r.value) THEN "poll2" ELSE @,
                         !.interrupted = IF r.exc = "KeyboardInterrupt" THEN "poll2" ELSE @,
                         !.overlap = @ \/ \E w \in Workers : Alive(w),
                         !.sleep = IF r.exc # "none" THEN 0
                                   ELSE IF b = "sleep 10" THEN 10
                                   ELSE IF b = "sleep 4" THEN 4
                                   ELSE 0,
                         !.classified = Seen(out),
                         !.terminal = TerminalSeen(r.value)]
           /\ IF r.exc = "KeyboardInterrupt" THEN End(Return("None"))
              ELSE IF r.exc # "none" THEN End(Raise(r.exc))
              ELSE IF b = "break" THEN End(Return("None"))
              ELSE IF b \in {"sleep 10", "sleep 4"} THEN Goto("sleep", Unbound)
              ELSE IF b = "report"
                THEN IF ReturnsSnapshot THEN End(ReturnDoc(r.value))
                     ELSE Goto("fetch_all2", Unbound)
              ELSE IF b = "return None" THEN End(Return("None"))
              ELSE Goto("poll2", Unbound)
    /\ UNCHANGED << instance_vars, args, workers >>

\* time.sleep(10) of line 346 or time.sleep(4) of line 354 returns.
analyze_sleep ==
    /\ pc = "sleep"
    /\ pc' = "poll2"
    /\ UNCHANGED << instance_vars, args, _status, result, workers, sent, hist >>

\* The _get_all_results() call of line 319 (outside the try) or 348 (inside).
analyze_get_all_results(out) ==
    /\ pc \in {"fetch_all1", "fetch_all2"}
    /\ LET r == _get_all_results(out, AnalyzeRequests(sent) + 1)
       IN  /\ sent' = [Tally(sent, PollParams(params.from_cache)) EXCEPT !.fetch_all = @ + 1]
           /\ hist' = [hist EXCEPT
                         !.failed = IF r.exc = "none" /\ ~Truthy(r.value) THEN "fetch_all" ELSE @,
                         !.interrupted = IF r.exc = "KeyboardInterrupt" THEN pc ELSE @,
                         !.classified = Seen(out)]
           /\ IF r.exc = "KeyboardInterrupt" /\ pc = "fetch_all2" THEN End(Return("None"))
              ELSE IF r.exc # "none" THEN End(Raise(r.exc))
              ELSE IF ~Truthy(r.value) THEN End(Return("False"))
              ELSE End(ReturnDoc(r.value))
    /\ UNCHANGED << instance_vars, args, workers >>

\* A KeyboardInterrupt reaches the driver while it starts the workers, waits in
\* join() or sleeps: lines 357-358, analyze falls off its end and returns None.
analyze_interrupt ==
    /\ pc \in {"start", "join", "sleep"}
    /\ hist' = [hist EXCEPT !.interrupted = pc]
    /\ End(Return("None"))
    /\ UNCHANGED << instance_vars, args, workers, sent >>

\* Lines 370-391 of main: what main does with the outcome r of analyze.  It
\* returns 1 when the value is falsy, writes the report and returns 0 when it
\* is not, and returns 1 from its handler of Exception; a KeyboardInterrupt is
\* no Exception and leaves main.
MainExit(r) ==
    IF r.kind = "raise"
      THEN (IF r.value = "KeyboardInterrupt" THEN "KeyboardInterrupt" ELSE "1")
    ELSE IF NoResult(r) THEN "1"
    ELSE "0"

\* main after its call of analyze (host from the command line, return_all
\* 'done'): lines 382-391.
main ==
    /\ pc = "done"
    /\ hist.exit = ""
    /\ args.return_all = "done"
    /\ host # ""
    /\ hist' = [hist EXCEPT !.exit = MainExit(result)]
    /\ UNCHANGED << instance_vars, args, pc, _status, result, workers, sent >>

----------------------------------------------------------------------------
(* The endpoint workers: _get_detailed_endpoint_information. *)

\* A worker with one pace.
SleepAfter_flat(progress) == 5

\* time.sleep(10) when progress < 0, time.sleep(5) otherwise (lines 245-250)
SleepAfter(progress) == IF progress < 0 THEN 10 ELSE 5

\* What a worker's request produced: a usable document ("ok"), a non-200
\* answer, or a failure of another kind (transport exception, 200 answer that
\* is no JSON or carries no progress).
WorkerGot(out) ==
    IF out.exc = "KeyboardInterrupt" THEN "interrupt"
    ELSE IF out.exc # "none" THEN "failed"
    ELSE IF out.resp.status_code # 200 THEN "non-200"
    ELSE IF ~out.resp.json \/ out.resp.progress = NoneV THEN "failed"
    ELSE "ok"

\* The worker's state after one pass of its loop body with transport outcome out.
WorkerStep(wk, out) ==
    LET e == FetchJson(out)
        p == out.resp.progress
    IN  IF e = "KeyboardInterrupt"
          THEN [pc |-> "interrupted", got |-> "interrupt", progress |-> NoneV, sleep |-> 0,
                handler |-> FALSE]
        ELSE IF e = "AccessProblem"
          THEN [pc |-> "AccessProblem", got |-> "non-200", progress |-> NoneV, sleep |-> 0,
                handler |-> FALSE]
        ELSE IF e # "none" \/ p = NoneV
          THEN [pc |-> "sleep", got |-> WorkerGot(out), progress |-> NoneV, sleep |-> 5,
                handler |-> TRUE]
        ELSE IF p[1] = 100
          THEN [pc |-> "returned", got |-> "ok", progress |-> p, sleep |-> 0,
                handler |-> FALSE]
        ELSE [pc |-> "sleep", got |-> "ok", progress |-> p, sleep |-> SleepAfter(p[1]),
              handler |-> FALSE]

\* A worker that runs on the driver's own instance and stores its from_cache
\* argument ('off') there.
worker_request_sharing(w, out) ==
    /\ workers[w].pc = "request"
    /\ workers' = [workers EXCEPT ![w] = WorkerStep(workers[w], out)]
    /\ params' = [params EXCEPT !.from_cache = "off"]
    /\ UNCHANGED << host, API_URL, MAX_ASSESSMENTS, CLIENT_MAX_ASSESSMENTS,
                    CURRENT_ASSESSMENTS, endpoint_jobs, args, pc, _status, result, sent,
                    hist, bound, klass, peer >>

\* Lines 239-258: one request of worker w and what follows it.
worker_request(w, out) ==
    /\ workers[w].pc = "request"
    /\ workers' = [workers EXCEPT ![w] = WorkerStep(workers[w], out)]
    /\ UNCHANGED << instance_vars, args, pc, _status, result, sent, hist >>

\* The worker's sleep returns: the next pass of while True.
worker_wake(w) ==
    /\ workers[w].pc = "sleep"
    /\ workers' = [workers EXCEPT ![w] = [NoWorker EXCEPT !.pc = "request"]]
    /\ UNCHANGED << instance_vars, args, pc, _status, result, sent, hist >>

\* A KeyboardInterrupt reaches the sleeping worker: the sleep of line 248 or 250
\* is inside the try (return, line 252), the sleep of line 257 is not.
worker_interrupt(w) ==
    /\ workers[w].pc = "sleep"
    /\ workers' = [workers EXCEPT ![w] =
                     [NoWorker EXCEPT !.got = "interrupt",
                        !.pc = IF workers[w].handler THEN "KeyboardInterrupt"
                               ELSE "interrupted"]]
    /\ UNCHANGED << instance_vars, args, pc, _status, result, sent, hist >>

----------------------------------------------------------------------------
(* The specification. *)

InfoOutcomes == GetOutcomes(InfoResponses)
AnalyzeOutcomes == GetOutcomes(AnalyzeResponses)
EndpointOutcomes == GetOutcomes(EndpointResponses)

\* The outcomes of the info requests of one capacity check, one per candidate:
\* the second is looked at only when the second candidate is probed, that is
\* after a ConnectionError of the first.
InfoScripts ==
    { << o, Raised("ConnectionError") >> : o \in InfoOutcomes }
      \cup { << Raised("ConnectionError"), o >> : o \in InfoOutcomes }

Next ==
    \/ \E h \in {"", HostName} : set_host(h)
    \/ \E outs \in InfoScripts : analyze(outs)
    \/ \E h \in {None, HostName}, a \in AnalyzeArgs : analyze_host(h, a)
    \/ \E out \in AnalyzeOutcomes : analyze_trigger(out)
    \/ \E out \in AnalyzeOutcomes : analyze_poll1(out)
    \/ analyze_testing
    \/ analyze_start
    \/ analyze_join
    \/ \E out \in AnalyzeOutcomes : analyze_poll2(out)
    \/ analyze_sleep
    \/ \E out \in AnalyzeOutcomes :
         analyze_get_all_results(out)
    \/ analyze_interrupt
    \/ main
    \/ \E w \in Workers, out \in EndpointOutcomes : worker_request(w, out)
    \/ \E w \in Workers : worker_wake(w)
    \/ \E w \in Workers : worker_interrupt(w)

Spec == Init /\ [][Next]_vars

----------------------------------------------------------------------------
(* One call of analyze against a service that answers every request. *)

\* A request that succeeds: requests.get returns a 200 answer with the JSON
\* document of its kind.
Succeeds(responses) ==
    { Returned(r) : r \in { d \in responses : d.status_code = 200 /\ d.json } }

\* The info request of line 132 succeeds (no second candidate is probed).
LiveInfoScripts ==
    { << o, o >> : o \in Succeeds(InfoResponses) }

\* The aggregate status the service may report in the answer to a request of
\* a loop that has sent polls requests: READY or ERROR stays once reported,
\* and is reached at the latest with the last poll the loop is given.
LiveStatuses(polls) ==
    IF hist.terminal # "" THEN {hist.terminal}
    ELSE IF polls + 1 >= MaxPolls THEN {"READY", "ERROR"}
    ELSE HostStatuses

\* The answers to a request to the analyze endpoint (lines 181, 202, 224).
LiveAnalyzeOutcomes(polls) ==
    { o \in Succeeds(AnalyzeResponses) : o.resp.status \in LiveStatuses(polls) }

\* The answers to a worker's request (line 240): a document with a progress,
\* whatever its value.
LiveEndpointOutcomes ==
    { o \in Succeeds(EndpointResponses) : o.resp.progress # NoneV }

\* The steps of the driver: the statements of analyze in program order; no
\* KeyboardInterrupt is delivered.
LiveDriver ==
    \/ \E outs \in LiveInfoScripts : analyze(outs)
    \/ \E h \in {None, HostName}, a \in AnalyzeArgs : analyze_host(h, a)
    \/ \E out \in LiveAnalyzeOutcomes(0) : analyze_trigger(out)
    \/ \E out \in LiveAnalyzeOutcomes(sent.poll1) : analyze_poll1(out)
    \/ analyze_testing
    \/ analyze_start
    \/ analyze_join
    \/ \E out \in LiveAnalyzeOutcomes(sent.poll2) : analyze_poll2(out)
    \/ analyze_sleep
    \/ \E out \in LiveAnalyzeOutcomes(MaxPolls) : analyze_get_all_results(out)

\* The steps of the process of worker w (lines 238-258).
LiveWorker(w) ==
    \/ \E out \in LiveEndpointOutcomes : worker_request(w, out)
    \/ worker_wake(w)

LiveNext ==
    \/ LiveDriver
    \/ \E w \in Workers : LiveWorker(w)

\* The driver and every worker are processes of their own that the operating
\* system keeps running: a request is answered, a sleep returns, and the
\* statement after it is executed.
LiveSpec ==
    /\ Init
    /\ [][LiveNext]_vars
    /\ WF_vars(LiveDriver)
    /\ \A w \in Workers : WF_vars(LiveWorker(w))

----------------------------------------------------------------------------
(* Two instances in one process. *)

\* The second instance is constructed with or without api_url.
IsolationInit ==
    InitWith({ Constructed(u) : u \in {None, CustomUrl} })

\* The arguments of the first instance's analyze call.
IsolationArgs ==
    { [DefaultArgs EXCEPT !.resume = r, !.detail = d, !.return_all = ra]
        : r \in BOOLEAN, d \in BOOLEAN, ra \in {"done", "off"} }

\* The first instance runs analyze (its capacity check answered in every way,
\* its later requests with documents) and the second its capacity check, in
\* any order.
IsolationNext ==
    \/ \E outs \in InfoScripts : analyze(outs)
    \/ \E outs \in InfoScripts : peer_check_api_info(outs)
    \/ \E h \in {None, HostName}, a \in IsolationArgs : analyze_host(h, a)
    \/ \E out \in Succeeds(AnalyzeResponses) : analyze_trigger(out)
    \/ \E out \in Succeeds(AnalyzeResponses) : analyze_poll1(out)
    \/ analyze_testing
    \/ analyze_start
    \/ analyze_join
    \/ \E out \in Succeeds(AnalyzeResponses) : analyze_poll2(out)
    \/ analyze_sleep
    \/ \E out \in Succeeds(AnalyzeResponses) : analyze_get_all_results(out)

IsolationSpec == IsolationInit /\ [][IsolationNext]_vars

----------------------------------------------------------------------------
(* Properties. *)

C3_CapacityGate ==
    (pc # "idle" /\ MAX_ASSESSMENTS # NoneV /\ MAX_ASSESSMENTS[1] <= 0) =>
        /\ hist.gate = "not ready"
        /\ pc = "done"
        /\ result = Return("False")
        /\ AnalyzeRequests(sent) = 0

C3_Witness ==
    /\ pc = "done"
    /\ MAX_ASSESSMENTS = Some(0)
    /\ hist.gate = "not ready"
    /\ Len(sent.info) >= 1

\* C4: the classifier passes a 200 response through, and for every other code
\* raises AccessProblem with the message of that code's kind, whatever the
\* body: the joined structured errors when there are any, the raw text of the
\* body otherwise (a non-JSON body included).
C4_ClassifierAlwaysFatal ==
    LET c == hist.classified
        joined == Join(c.errors)
    IN  c.exc # "" =>
          IF c.status_code = 200 THEN c.exc = "none"
          ELSE /\ c.exc = "AccessProblem"
               /\ c.msg = ErrorPrefix(c.status_code)
                            \o (IF joined # "" THEN joined ELSE c.text)

\* C5: after a poll of either loop that failed with a non-fatal error the
\* driver is about to poll again: the failure does not end the call.
C5_FailedPollIsRetried ==
    hist.lastPoll = "failed" => pc \in {"poll1", "poll2"}

\* C6: a call in which the trigger, a poll or the fetch-all failed with a
\* non-fatal error ends by returning False or None, and no exception but
\* AccessProblem leaves analyze (interrupts and the missing host apart).
C6_DriverDoesNotCrash ==
    pc = "done" =>
        /\ hist.failed # "" => NoResult(result)
        /\ (result.kind = "raise" /\ hist.interrupted = "" /\ ~hist.hostless)
             => result.value = "AccessProblem"

\* C7: a KeyboardInterrupt delivered during a poll of either loop, during a
\* sleep of the driver or while it starts or joins the workers makes analyze
\* return None: it never leaves analyze as an exception.
C7_InterruptReturnsNoResult ==
    hist.interrupted \in {"poll1", "poll2", "sleep", "start", "join"} =>
        pc = "done" /\ NoResult(result)

\* C8: analyze on a driver without a host (none from the constructor, set_host
\* or the call) ends without having issued any request, the info request
\* included.
C8_HostlessSendsNothing ==
    hist.hostless =>
        /\ pc = "done"
        /\ sent.info = << >>
        /\ AnalyzeRequests(sent) = 0

\* C9: after a successful endpoint response a worker sleeps 10 s when
\* progress < 0 and 5 s when 0 <= progress < 100; at progress = 100 it returns
\* without sleeping, and a worker that has returned never acts again.
C9_WorkerPacing ==
    /\ [](\A w \in Workers :
            workers[w].got = "ok" =>
              LET p == workers[w].progress[1]
              IN  /\ p < 0 => workers[w].pc = "sleep" /\ workers[w].sleep = 10
                  /\ (0 <= p /\ p < 100) => workers[w].pc = "sleep" /\ workers[w].sleep = 5
                  /\ p = 100 => workers[w].pc = "returned" /\ workers[w].sleep = 0)
    /\ [][\A w \in Workers :
            workers[w].pc = "returned" => workers'[w] = workers[w]]_vars

C9_Witness ==
    \E w, v \in Workers :
        /\ workers[w].pc = "returned" /\ workers[w].progress = Some(100)
        /\ workers[v].pc = "sleep" /\ workers[v].got = "ok" /\ workers[v].sleep = 10

\* C10: with detail set analyze starts one worker per endpoint of the snapshot
\* on which the first loop ended, and no poll is issued while a worker is
\* alive; without detail no worker is ever started.
C10_JoinAllBarrier ==
    /\ ~hist.overlap
    /\ ~args.detail => endpoint_jobs = << >> /\ \A w \in Workers : workers[w] = NoWorker
    /\ (args.detail /\ pc \in {"join", "poll2", "sleep", "fetch_all2"}) =>
          /\ hist.fanout # NoneV
          /\ Len(endpoint_jobs) = hist.fanout[1]
          /\ \A w \in Workers : (workers[w] # NoWorker) <=> (w <= hist.fanout[1])
    /\ pc \in {"poll2", "sleep", "fetch_all2"} => \A w \in Workers : ~Alive(w)

C10_Witness ==
    /\ args.detail
    /\ pc = "poll2"
    /\ sent.poll2 >= 1
    /\ Len(endpoint_jobs) = MaxEndpoints
    /\ \A w \in Workers : Terminated(w)

\* C11: when the classifier raises AccessProblem on a request of the driver
\* (the info request of the capacity check, the trigger, a poll of either loop
\* or the fetch-all), the call is over: AccessProblem leaves analyze, and no
\* request is sent once analyze has ended.
C11_FatalErrorAborts ==
    /\ [](hist.classified.exc = "AccessProblem" =>
            pc = "done" /\ result = Raise("AccessProblem"))
    /\ [][pc = "done" => sent' = sent]_vars

C11_Witness ==
    /\ hist.classified.exc = "AccessProblem"
    /\ sent.poll1 >= 1
    /\ sent.poll2 >= 1
    /\ hist.lastPoll = "AccessProblem"
    /\ result = Raise("AccessProblem")

\* C12: once a trigger or poll response of the call has reported READY or
\* ERROR the driver is at no polling position and sends no further poll,
\* whatever return_all is.
C12_TerminalStatusEndsPolling ==
    /\ [](hist.terminal # "" => pc \in {"done", "fetch_all1", "fetch_all2"})
    /\ [][hist.terminal # "" =>
            sent'.poll1 = sent.poll1 /\ sent'.poll2 = sent.poll2]_vars

C12_Witness ==
    /\ hist.terminal = "READY"
    /\ params.return_all = "off"
    /\ sent.poll2 >= 1
    /\ sent.fetch_all = 1
    /\ pc = "done"

\* C13: main returns 0 exactly when analyze produced a report, and returns 1
\* in every other case: a no-result value, AccessProblem or any other
\* exception.
C13_ExitStatus ==
    hist.exit # "" =>
        IF result.kind = "return" /\ ~NoResult(result)
          THEN hist.exit = "0"
          ELSE hist.exit = "1"

\* C14: in one call at most one request carries startNew: it is the trigger of
\* a call with resume false and from_cache not 'on'.  With from_cache 'on' the
\* trigger carries fromCache and maxAge and no startNew; no request carries
\* both, no poll or fetch-all carries startNew, and a resume call sends no
\* trigger.
C14_StartNewDiscipline ==
    /\ sent.startNew <= 1
    /\ sent.trigger <= 1
    /\ sent.both = 0
    /\ sent.startNew = 1 => sent.trigger = 1 /\ ~args.resume /\ args.from_cache = "off"
    /\ sent.startNew = sent.trigger - (IF args.from_cache = "on" THEN sent.trigger ELSE 0)
    /\ (sent.trigger = 1 /\ args.from_cache = "on") => sent.cached >= 1
    /\ args.resume => sent.trigger = 0

C14_Witness ==
    /\ sent.trigger = 1
    /\ sent.startNew = 1
    /\ args.from_cache = "off"
    /\ pc = "done"

\* C15: after a poll that answered DNS the driver sleeps 4 s before it polls
\* again, after a poll that answered IN_PROGRESS (the first poll of a resume
\* call apart) it sleeps 10 s, and after no poll of a job that is not finished
\* does it go on without a sleep; hist.sleep is the sleep the driver takes
\* after its latest poll (0: none).
C15_PacedPolling ==
    /\ hist.lastPoll = "DNS" => hist.sleep = 4
    /\ (hist.lastPoll = "IN_PROGRESS" /\ ~(args.resume /\ sent.poll1 + sent.poll2 = 1))
         => hist.sleep = 10
    /\ hist.lastPoll = "UNKNOWN" => hist.sleep > 0

\* C16: whenever the trigger or a poll has reported status ERROR, analyze has
\* ended by returning False or None, with no worker started after it and no
\* fetch-all sent.
C16_ErrorIsTerminalFailure ==
    hist.terminal = "ERROR" =>
        /\ pc = "done"
        /\ NoResult(result)
        /\ sent.fetch_all = 0
        /\ \A w \in Workers : ~Alive(w)

\* C17: after a poll whose status is none of DNS, IN_PROGRESS, READY, ERROR
\* the call has not ended and has produced nothing: the driver is about to
\* poll again, in the first loop and in the second.
C17_UnknownStatusIsTransient ==
    hist.lastPoll = "UNKNOWN" =>
        /\ pc \in {"poll1", "poll2"}
        /\ result = Running
        /\ sent.fetch_all = 0

C17_Witness ==
    /\ hist.firstPoll = "UNKNOWN"
    /\ sent.poll1 >= 2
    /\ sent.poll2 >= 1
    /\ hist.lastPoll = "UNKNOWN"
    /\ pc = "poll2"

\* C18 (as the code has it): with no explicit API URL the gate probes the
\* candidates in list order and goes on to the next one only after a
\* ConnectionError; API_URL is bound to the candidate whose info request gave
\* a usable document, and to none otherwise.  A non-200 answer of a candidate
\* ends the check there, with AccessProblem (JSON body) or with the answer
\* "not ready" (non-JSON body); the "APIs are down" error comes only when every
\* candidate raised ConnectionError.
C18_ProbeOnlyPastConnectionErrors ==
    (hist.probes # << >> /\ sent.info[1] # CustomUrl) =>
        LET n == Len(hist.probes)
        IN  /\ n <= Len(API_URLS)
            /\ sent.info = SubSeq(API_URLS, 1, n)
            /\ \A i \in 1..(n - 1) : hist.probes[i] = "ConnectionError"
            /\ n < Len(API_URLS) => hist.probes[n] # "ConnectionError"
            /\ API_URL = (IF hist.probes[n] = "ok" THEN API_URLS[n] ELSE None)
            /\ hist.probes[n] = "non-200" =>
                 /\ pc = "done"
                 /\ result \in {Raise("AccessProblem"), Return("False")}
            /\ hist.probes[n] = "ConnectionError" =>
                 pc = "done" /\ result = Raise("AccessProblem")

C18_Witness ==
    /\ hist.probes = << "ConnectionError", "ok" >>
    /\ API_URL = API_URLS[2]
    /\ hist.gate = "ready"

\* C18 (as stated): with no explicit API URL the gate goes on to the next
\* candidate whenever one does not answer successfully (ConnectionError or
\* non-200 answer), and fails with AccessProblem only when no candidate is left.
C18_ProbePastEveryFailure ==
    (hist.probes # << >> /\ sent.info[1] # CustomUrl) =>
        LET n == Len(hist.probes)
        IN  /\ hist.probes[n] \in {"ConnectionError", "non-200"} => n = Len(API_URLS)
            /\ hist.gate = "AccessProblem" => n = Len(API_URLS)

\* C19: with an API URL given to the constructor the gate sends one info
\* request, to that URL, and none to a built-in candidate; when that request
\* raises ConnectionError, AccessProblem leaves analyze and no request to the
\* analyze endpoint is sent.
C19_ExplicitUrlNoFallback ==
    (sent.info # << >> /\ sent.info[1] = CustomUrl) =>
        /\ sent.info = << CustomUrl >>
        /\ API_URL = CustomUrl
        /\ hist.probes = << "ConnectionError" >> =>
             /\ pc = "done"
             /\ result = Raise("AccessProblem")
             /\ AnalyzeRequests(sent) = 0
             /\ \A w \in Workers : workers[w] = NoWorker

C19_Witness ==
    /\ sent.info = << CustomUrl >>
    /\ hist.probes = << "ConnectionError" >>
    /\ result = Raise("AccessProblem")

\* C20: a worker whose request failed otherwise than by a non-200 answer
\* sleeps 5 s and requests again, however often that happens; a worker whose
\* request was answered with a non-200 status ends at once with AccessProblem.
C20_WorkerErrorHandling ==
    \A w \in Workers :
        /\ workers[w].got = "failed" => workers[w].pc = "sleep" /\ workers[w].sleep = 5
        /\ workers[w].got = "non-200" => workers[w].pc = "AccessProblem"

\* C21: a step of a started endpoint worker changes that worker only: the
\* driver's instance (host, API URL, counters, request parameters), its
\* position, its local _status, its request counters and every other worker
\* stay as they are.  A report analyze returns is the answer to the latest
\* request the driver itself sent to the analyze endpoint.
C21_WorkersAreAdvisory ==
    /\ [][\A w \in Workers :
            (workers[w].pc # "unstarted" /\ workers'[w] # workers[w]) =>
              /\ UNCHANGED << instance_vars, args, pc, _status, result, sent, hist >>
              /\ \A v \in Workers \ {w} : workers'[v] = workers[v]]_vars
    /\ []((result.kind = "return" /\ ~NoResult(result)) =>
            result.serial = AnalyzeRequests(sent))

C21_Witness ==
    /\ pc = "done"
    /\ result.kind = "return" /\ ~NoResult(result)
    /\ params.from_cache = "on"
    /\ \E w, v \in Workers :
         /\ workers[w].pc = "returned"
         /\ workers[v].pc = "interrupted"

\* C23: after an info request answered 200 with a JSON document the gate
\* reports ready exactly when the document's maxAssessments (stored in
\* MAX_ASSESSMENTS) is greater than 0, whatever its other fields are, a missing
\* or empty list of messages included.
C23_GateDependsOnMaxAssessmentsOnly ==
    (hist.probes # << >> /\ hist.probes[Len(hist.probes)] = "ok") =>
        (hist.gate = "ready" <=> (MAX_ASSESSMENTS # NoneV /\ MAX_ASSESSMENTS[1] > 0))

\* C24: the step in which a worker ends with AccessProblem changes neither
\* another worker nor the driver's position or outcome; once every started
\* worker has ended, in whatever way, the driver's join completes; and
\* AccessProblem leaves analyze only when one of the driver's own requests or
\* its capacity check raised it.
C24_WorkerFatalStaysInWorker ==
    /\ [][\A w \in Workers :
            (workers[w].pc # "AccessProblem" /\ workers'[w].pc = "AccessProblem") =>
              /\ \A v \in Workers \ {w} : workers'[v] = workers[v]
              /\ UNCHANGED << pc, result, _status, sent >>]_vars
    /\ []((/\ pc = "join"
           /\ \A i \in 1..Len(endpoint_jobs) :
                workers[endpoint_jobs[i]].pc \in
                  {"returned", "interrupted", "AccessProblem", "KeyboardInterrupt"})
            => ENABLED analyze_join)
    /\ [](result = Raise("AccessProblem") =>
            hist.classified.exc = "AccessProblem" \/ hist.gate = "AccessProblem")

C24_Witness ==
    /\ pc = "done"
    /\ result.kind = "return" /\ ~NoResult(result)
    /\ sent.poll2 >= 1
    /\ \E w, v \in Workers :
         /\ workers[w].pc = "AccessProblem"
         /\ workers[v].pc = "returned"

\* C25: in a resume call a READY answer to a poll of the first loop (no poll
\* of the second loop has been sent, so no IN_PROGRESS answer came before it)
\* makes analyze return None with no fetch-all request, whatever return_all is.
C25_ResumeOnFinishedJob ==
    (args.resume /\ hist.lastPoll = "READY" /\ sent.poll1 >= 1 /\ sent.poll2 = 0) =>
        /\ pc = "done"
        /\ result = Return("None")
        /\ sent.fetch_all = 0

C25_Witness ==
    /\ args.resume
    /\ hist.firstPoll = "DNS"
    /\ hist.lastPoll = "READY"
    /\ sent.poll1 = 2
    /\ sent.poll2 = 0
    /\ params.return_all = "off"
    /\ pc = "done"

\* C22: when every request succeeds and the aggregate status becomes READY or
\* ERROR and stays so, the call of analyze eventually ends, whatever the
\* progress values of the endpoints do.
C22_EventualCompletion ==
    <>(pc = "done")

\* C26: no step of either instance changes an attribute of the class; a step
\* of the first instance (its capacity check, the rest of its analyze) leaves
\* what the second instance reads as API_URL and as the three counters
\* unchanged, and a capacity check of the second instance leaves what the
\* first instance reads unchanged.
C26_InstanceIsolation ==
    [][ /\ klass' = klass
        /\ klass = ClassDefaults
        /\ (peer' # peer =>
              UNCHANGED << API_URL, MAX_ASSESSMENTS, CLIENT_MAX_ASSESSMENTS,
                           CURRENT_ASSESSMENTS, bound >>)
        /\ (<< pc, sent, hist, API_URL, MAX_ASSESSMENTS, CLIENT_MAX_ASSESSMENTS,
               CURRENT_ASSESSMENTS, bound >>'
              # << pc, sent, hist, API_URL, MAX_ASSESSMENTS, CLIENT_MAX_ASSESSMENTS,
                   CURRENT_ASSESSMENTS, bound >>
             => peer' = peer) ]_vars

\* Both instances have run their capacity check and have stored a base URL
\* and counters of their own; the two read different base URLs and different
\* limits, the first has gone on with its analyze, and the class still has
\* its defaults.
C26_Witness ==
    /\ AttributeNames \subseteq bound
    /\ AttributeNames \subseteq peer.bound
    /\ peer.attrs.API_URL # API_URL
    /\ peer.attrs.MAX_ASSESSMENTS # MAX_ASSESSMENTS
    /\ MAX_ASSESSMENTS # ClassDefaults.MAX_ASSESSMENTS
    /\ pc = "poll2"
    /\ klass = ClassDefaults

====
